---- MODULE Spec2Model ----
(***************************************************************************)
(* Model of GST_Easy_Login.py: the flat KEY="VALUE" account store, the     *)
(* credential menu and the interactive login loop that drives one browser  *)
(* session per attempt.                                                    *)
(*                                                                         *)
(* Strings are sequences of one-character strings, so that strip(),        *)
(* replace(" ", ""), upper(), lower() and the substring test `in` are      *)
(* computed as Python computes them.                                       *)
(***************************************************************************)
EXTENDS Integers, Sequences, FiniteSets, TLC

\* ---------------------------------------------------------------- bounds
\* Add allocates a new index only while the next index is at most MaxIndex.
MaxIndex == 2

\* ---------------------------------------------------------------- strings
IsSpace(c) == c \in {" ", "\t"}

\* str.upper(), letter by letter.
Upper(c) ==
    CASE c = "a" -> "A" [] c = "b" -> "B" [] c = "c" -> "C" [] c = "d" -> "D"
      [] c = "e" -> "E" [] c = "f" -> "F" [] c = "g" -> "G" [] c = "h" -> "H"
      [] c = "i" -> "I" [] c = "j" -> "J" [] c = "k" -> "K" [] c = "l" -> "L"
      [] c = "m" -> "M" [] c = "n" -> "N" [] c = "o" -> "O" [] c = "p" -> "P"
      [] c = "q" -> "Q" [] c = "r" -> "R" [] c = "s" -> "S" [] c = "t" -> "T"
      [] c = "u" -> "U" [] c = "v" -> "V" [] c = "w" -> "W" [] c = "x" -> "X"
      [] c = "y" -> "Y" [] c = "z" -> "Z"
      [] OTHER -> c

\* str.lower(), letter by letter.
Lower(c) ==
    CASE c = "A" -> "a" [] c = "B" -> "b" [] c = "C" -> "c" [] c = "D" -> "d"
      [] c = "E" -> "e" [] c = "F" -> "f" [] c = "G" -> "g" [] c = "H" -> "h"
      [] c = "I" -> "i" [] c = "J" -> "j" [] c = "K" -> "k" [] c = "L" -> "l"
      [] c = "M" -> "m" [] c = "N" -> "n" [] c = "O" -> "o" [] c = "P" -> "p"
      [] c = "Q" -> "q" [] c = "R" -> "r" [] c = "S" -> "s" [] c = "T" -> "t"
      [] c = "U" -> "u" [] c = "V" -> "v" [] c = "W" -> "w" [] c = "X" -> "x"
      [] c = "Y" -> "y" [] c = "Z" -> "z"
      [] OTHER -> c

UpperStr(s) == [i \in 1..Len(s) |-> Upper(s[i])]
LowerStr(s) == [i \in 1..Len(s) |-> Lower(s[i])]

RECURSIVE LStrip(_)
LStrip(s) == IF s # <<>> /\ IsSpace(Head(s)) THEN LStrip(Tail(s)) ELSE s

RECURSIVE RStrip(_)
RStrip(s) ==
    IF s # <<>> /\ IsSpace(s[Len(s)]) THEN RStrip(SubSeq(s, 1, Len(s) - 1)) ELSE s

\* str.strip(): leading and trailing whitespace removed.
Strip(s) == RStrip(LStrip(s))

RECURSIVE LStripQuote(_)
LStripQuote(s) == IF s # <<>> /\ Head(s) = "\"" THEN LStripQuote(Tail(s)) ELSE s

RECURSIVE RStripQuote(_)
RStripQuote(s) ==
    IF s # <<>> /\ s[Len(s)] = "\"" THEN RStripQuote(SubSeq(s, 1, Len(s) - 1)) ELSE s

\* str.strip('"'): every leading and trailing double quote removed.
StripQuotes(s) == RStripQuote(LStripQuote(s))

IsNotBlank(c) == c # " "

\* s.replace(" ", "").upper(): the normalized trade-name key.
Normalize(s) == UpperStr(SelectSeq(s, IsNotBlank))

\* Python's `needle in hay` on strings.
Contains(hay, needle) ==
    \E i \in 1..(Len(hay) - Len(needle) + 1) :
        SubSeq(hay, i, i + Len(needle) - 1) = needle

\* The regular expression \d on the digits of the model.
IsDigit(c) == c \in {"0", "1", "2", "3", "4", "5", "6", "7", "8", "9"}

DigitValue(c) ==
    CASE c = "0" -> 0 [] c = "1" -> 1 [] c = "2" -> 2 [] c = "3" -> 3
      [] c = "4" -> 4 [] c = "5" -> 5 [] c = "6" -> 6 [] c = "7" -> 7
      [] c = "8" -> 8 [] c = "9" -> 9

DigitChar(d) ==
    CASE d = 0 -> "0" [] d = 1 -> "1" [] d = 2 -> "2" [] d = 3 -> "3"
      [] d = 4 -> "4" [] d = 5 -> "5" [] d = 6 -> "6" [] d = 7 -> "7"
      [] d = 8 -> "8" [] d = 9 -> "9"

\* int(text) on a text of digits.
RECURSIVE ToInt(_)
ToInt(s) ==
    IF s = <<>> THEN 0
    ELSE 10 * ToInt(SubSeq(s, 1, Len(s) - 1)) + DigitValue(s[Len(s)])

\* str(n) of a natural number.
RECURSIVE ToStr(_)
ToStr(n) ==
    IF n < 10 THEN <<DigitChar(n)>>
    ELSE ToStr(n \div 10) \o <<DigitChar(n % 10)>>

\* ---------------------------------------------------------------- keys
TRADE_NAME_PREFIX == "Trade_Name_"
USER_ID_PREFIX == "GST_UserID_"
PASSWORD_PREFIX == "GST_PSSWD_"

\* A key is its prefix and the text that follows it up to the '=' sign.
\* f"{PREFIX}{index}"
Key(pre, idx) == <<pre, ToStr(idx)>>

\* The characters of a key as they stand in the file.
KeyText(k) ==
    (CASE k[1] = TRADE_NAME_PREFIX ->
            <<"T", "r", "a", "d", "e", "_", "N", "a", "m", "e", "_">>
       [] k[1] = USER_ID_PREFIX ->
            <<"G", "S", "T", "_", "U", "s", "e", "r", "I", "D", "_">>
       [] k[1] = PASSWORD_PREFIX ->
            <<"G", "S", "T", "_", "P", "S", "S", "W", "D", "_">>
       [] OTHER -> <<"F", "O", "O">>) \o k[2]

\* f"{key}=\"{new_value}\"\n": the text written after the '=' sign.
Quoted(v) == <<"\"">> \o v \o <<"\"">>

\* One line of the .env file as f.readlines() returns it: its key, the raw
\* text after '=' and whether the line ends with a newline (only the last
\* line of a file may lack it).  Line(k, v) is the line the program writes.
Line(k, v) == [key |-> k, raw |-> Quoted(v), nl |-> TRUE]

\* ---------------------------------------------------------------- literals
STR_back == <<"b", "a", "c", "k">>
STR_list == <<"l", "i", "s", "t">>
STR_yes == <<"y", "e", "s">>
STR_1 == <<"1">>
STR_2 == <<"2">>
STR_3 == <<"3">>
STR_4 == <<"4">>
STR_dashboard == <<"d", "a", "s", "h", "b", "o", "a", "r", "d">>
STR_home == <<"h", "o", "m", "e">>
STR_loggedin == <<"l", "o", "g", "g", "e", "d", "i", "n">>

\* ---------------------------------------------------------------- store
\* os.getenv(key): an optional value.
None == [some |-> FALSE, val |-> <<>>]
Some(v) == [some |-> TRUE, val |-> v]
getenv(env, k) == IF k \in DOMAIN env THEN Some(env[k]) ELSE None

\* Python truthiness of an optional string: not None and not empty.
Truthy(o) == o.some /\ o.val # <<>>

\* os.environ[key] = value
SetEnv(env, k, v) == [x \in (DOMAIN env) \cup {k} |-> IF x = k THEN v ELSE env[x]]

\* python-dotenv, double-quoted value: the position of the closing quote,
\* searched from position i over ordinary characters and backslash pairs;
\* 0 when the line has none.
RECURSIVE CloseQuote(_, _)
CloseQuote(r, i) ==
    IF i > Len(r) THEN 0
    ELSE IF r[i] = "\"" THEN i
    ELSE IF r[i] = "\\" THEN CloseQuote(r, i + 2)
    ELSE CloseQuote(r, i + 1)

\* python-dotenv decodes the escape sequences of a double-quoted value.
EscapeOf(c) ==
    CASE c = "t" -> "\t" [] c = "n" -> "\n" [] c = "r" -> "\r" [] c = "f" -> "\f"
      [] c = "a" -> "<BEL>" [] c = "b" -> "<BS>" [] c = "v" -> "<VT>"
      [] OTHER -> c

IsEscape(c) == c \in {"\\", "\"", "'", "a", "b", "f", "n", "r", "t", "v"}

RECURSIVE DecodeEscapes(_)
DecodeEscapes(s) ==
    IF s = <<>> THEN <<>>
    ELSE IF Head(s) = "\\" /\ Len(s) >= 2 /\ IsEscape(s[2])
         THEN <<EscapeOf(s[2])>> \o DecodeEscapes(SubSeq(s, 3, Len(s)))
         ELSE <<Head(s)>> \o DecodeEscapes(Tail(s))

\* python-dotenv's reading of the raw text after '=': a double-quoted value
\* is the decoded text between the quotes and nothing but whitespace may
\* follow it, an unquoted value is the text without trailing whitespace;
\* anything else is a line the library skips (None).
DotenvValue(raw) ==
    LET r == LStrip(raw)
        c == CloseQuote(r, 2)
    IN  IF r # <<>> /\ r[1] = "\""
        THEN IF c # 0 /\ Strip(SubSeq(r, c + 1, Len(r))) = <<>>
             THEN Some(DecodeEscapes(SubSeq(r, 2, c - 1)))
             ELSE None
        ELSE Some(RStrip(r))

\* The lines of the file python-dotenv can read.
Bindings(lines) == {i \in 1..Len(lines) : DotenvValue(lines[i].raw).some}

\* The last readable line of the file that binds key k.
LastLineOf(lines, k) ==
    CHOOSE i \in Bindings(lines) :
        /\ lines[i].key = k
        /\ \A j \in Bindings(lines) : lines[j].key = k => j <= i

FileKeys(lines) == {lines[i].key : i \in Bindings(lines)}

\* load_dotenv(dotenv_path, override=True): every key bound in the file is
\* set in the environment (the last binding of a key wins), other
\* environment entries stay.
load_dotenv(env, lines) ==
    [k \in (DOMAIN env) \cup FileKeys(lines) |->
        IF k \in FileKeys(lines)
        THEN DotenvValue(lines[LastLineOf(lines, k)].raw).val
        ELSE env[k]]

\* update_env_variable(key, new_value) on the store st = [file, environ]:
\* every line that starts with `key=` is rewritten in place; when there is
\* none the new line is appended to the text of the file, so it continues
\* a last line that has no newline; os.environ is set at once.
update_env_variable(st, k, v) ==
    LET lines == st.file
        n == Len(lines)
        updated == \E i \in 1..n : lines[i].key = k
        new_lines == [i \in 1..n |->
                        IF lines[i].key = k THEN Line(k, v) ELSE lines[i]]
        appended ==
            IF n > 0 /\ ~lines[n].nl
            THEN [lines EXCEPT ![n] =
                    [key |-> @.key,
                     raw |-> @.raw \o KeyText(k) \o <<"=">> \o Quoted(v),
                     nl |-> TRUE]]
            ELSE Append(lines, Line(k, v))
    IN  [file |-> IF updated THEN new_lines ELSE appended,
         environ |-> SetEnv(st.environ, k, v)]

\* The normalized trade name a Trade_Name_<n> line carries:
\* match.group(2).strip().strip('"').replace(" ", "").upper()
MappedName(l) == Normalize(StripQuotes(Strip(l.raw)))

\* Mutant of IsIndexText: (\d*), so that no digit at all is accepted.
IsIndexTextOrEmpty(s) == \A i \in 1..Len(s) : IsDigit(s[i])

\* The text between the prefix and '=' matches (\d+).
IsIndexText(s) == s # <<>> /\ \A i \in 1..Len(s) : IsDigit(s[i])

\* The lines that match ^Trade_Name_(\d+)=(.*)$
TradeLines(lines) ==
    {i \in 1..Len(lines) :
        lines[i].key[1] = TRADE_NAME_PREFIX /\ IsIndexText(lines[i].key[2])}

\* get_account_mapping()[0]: normalized trade name -> index; a later line
\* of the same normalized name overwrites an earlier one.
get_account_mapping(lines) ==
    LET T == TradeLines(lines)
        names == {MappedName(lines[i]) : i \in T}
        last(n) == CHOOSE i \in T :
                      /\ MappedName(lines[i]) = n
                      /\ \A j \in T : MappedName(lines[j]) = n => j <= i
    IN  [n \in names |-> ToInt(lines[last(n)].key[2])]

RECURSIVE MaxOf(_)
MaxOf(S) ==
    IF S = {} THEN 0
    ELSE LET x == CHOOSE y \in S : TRUE
             m == MaxOf(S \ {x})
         IN  IF x > m THEN x ELSE m

\* get_account_mapping()[1]: highest Trade_Name index + 1.
next_available_index(lines) ==
    MaxOf({ToInt(lines[i].key[2]) : i \in TradeLines(lines)}) + 1

\* list_all_accounts(): the entries it prints, one for each name of the
\* mapping, with the original trade name taken from the environment.
list_all_accounts(lines, env) ==
    LET mapping == get_account_mapping(lines)
    IN  { [index |-> mapping[n],
           original_trade_name |->
               IF getenv(env, Key(TRADE_NAME_PREFIX, mapping[n])).some
               THEN getenv(env, Key(TRADE_NAME_PREFIX, mapping[n])).val
               ELSE n,
           username_val |-> getenv(env, Key(USER_ID_PREFIX, mapping[n])),
           password_val |-> getenv(env, Key(PASSWORD_PREFIX, mapping[n]))]
          : n \in DOMAIN mapping }

\* One call of update_env_variable that a handler is about to make.
Write(k, v) == [key |-> k, value |-> v]

\* add_new_account() with the operator's four answers (the overwrite answer
\* is read only when the name exists): the calls of update_env_variable it
\* makes, in order; none when it aborts.
add_new_account(lines, nameIn, overwriteIn, userIn, passIn) ==
    LET trade_name_mapping == get_account_mapping(lines)
        new_trade_name == Strip(nameIn)
        normalized_trade_name == Normalize(new_trade_name)
        exists == normalized_trade_name \in DOMAIN trade_name_mapping
        index_to_use == IF exists THEN trade_name_mapping[normalized_trade_name]
                        ELSE next_available_index(lines)
        new_username == Strip(userIn)
        new_password == Strip(passIn)
    IN  IF new_trade_name = <<>> THEN <<>>
        ELSE IF exists /\ LowerStr(Strip(overwriteIn)) # STR_yes THEN <<>>
        ELSE IF new_username = <<>> \/ new_password = <<>> THEN <<>>
        ELSE << Write(Key(TRADE_NAME_PREFIX, index_to_use), new_trade_name),
                Write(Key(USER_ID_PREFIX, index_to_use), new_username),
                Write(Key(PASSWORD_PREFIX, index_to_use), new_password) >>

\* update_existing_account() with the operator's three answers: the calls
\* of update_env_variable it makes, in order.
update_existing_account(lines, nameIn, userIn, passIn) ==
    LET trade_name_mapping == get_account_mapping(lines)
        normalized_account_name == Normalize(Strip(nameIn))
        index_to_update == trade_name_mapping[normalized_account_name]
        new_username == Strip(userIn)
        new_password == Strip(passIn)
    IN  IF DOMAIN trade_name_mapping = {} THEN <<>>
        ELSE IF normalized_account_name \notin DOMAIN trade_name_mapping THEN <<>>
        ELSE (IF new_username # <<>>
              THEN << Write(Key(USER_ID_PREFIX, index_to_update), new_username) >>
              ELSE <<>>)
             \o
             (IF new_password # <<>>
              THEN << Write(Key(PASSWORD_PREFIX, index_to_update), new_password) >>
              ELSE <<>>)

\* ---------------------------------------------------------------- inputs
\* What the operator may type at the trade-name prompts.
TradeInputs ==
    { <<>>,
      <<"a", " ", "b">>, <<" ", "A", "B", " ">>,
      <<"c">>,
      <<"z">>,
      <<"B", "a", "c", "k">>, <<"l", "i", "s", "t">> }

NameInputs == { <<>>, <<"a", " ", "b">>, <<"A", "B">>, <<"c">> }
UserInputs == { <<>>, <<"u">>, <<"v">> }
PassInputs == { <<>>, <<"p">>, <<" ", "\\", "t">> }
ConfirmInputs == { <<"Y", "e", "s">>, <<"n", "o">> }
MenuInputs == { STR_1, <<" ", "2">>, STR_3, STR_4, <<"z">> }

\* Locations the portal may show after the submit click.
Locations ==
    { <<"/", "l", "o", "g", "i", "n">>,
      <<"/", "d", "a", "s", "h", "b", "o", "a", "r", "d">>,
      <<"/", "h", "o", "m", "e", "/", "x">>,
      <<"/", "l", "o", "g", "g", "e", "d", "i", "n">>,
      <<"/", "e", "r", "r", "o", "r">> }

\* The .env file found at start: empty (just created), a trade name with no
\* credentials, an account with an empty password, complete accounts (one
\* written without quotes), and a non-contiguous index.
InitialFiles ==
    { <<>>,
      << Line(Key(TRADE_NAME_PREFIX, 1), <<"a", " ", "b">>) >>,
      << Line(Key(TRADE_NAME_PREFIX, 1), <<"a", " ", "b">>),
         Line(Key(USER_ID_PREFIX, 1), <<"u">>),
         Line(Key(PASSWORD_PREFIX, 1), <<>>) >>,
      << Line(Key(TRADE_NAME_PREFIX, 1), <<"a", " ", "b">>),
         Line(Key(USER_ID_PREFIX, 1), <<"u">>),
         Line(Key(PASSWORD_PREFIX, 1), <<"p">>) >>,
      << [key |-> Key(USER_ID_PREFIX, 2), raw |-> <<"v">>, nl |-> TRUE],
         [key |-> Key(TRADE_NAME_PREFIX, 2), raw |-> <<"c">>, nl |-> TRUE],
         [key |-> Key(PASSWORD_PREFIX, 2), raw |-> <<"q">>, nl |-> TRUE] >> }

\* ---------------------------------------------------------------- state
VARIABLES
    file,                \* the lines of the .env file
    environ,             \* os.environ: key -> value
    written,             \* key -> the value last passed to update_env_variable
    writing,             \* the running add or update: its calls done and to do,
                         \* and whether the overwrite question was answered 'yes'
    chromedriverExists,  \* os.path.exists(chromedriver_path)
    pc,                  \* where the program is blocked or about to run
    trade_name_mapping,  \* perform_gst_login's locals
    account_name_input,
    index,
    username,
    password,
    driver,
    leaving,             \* the `break` of line 357 is pending
    openSessions,        \* browser sessions currently open
    quitCalls,           \* driver.quit() calls on this attempt's session
    log,                 \* what this attempt did to the page and the operator
    current_url,         \* driver.current_url after the click
    classified,          \* the branch taken at line 354 in this attempt
    outcome,             \* how this attempt ended
    faultAt,             \* the step of this attempt that raised, if any
    report               \* the last message printed with print()

store == <<file, environ, written, writing>>
locals == <<trade_name_mapping, account_name_input, index, username, password, driver, leaving>>
browser == <<openSessions, quitCalls, log, current_url>>
attempt == <<classified, outcome, faultAt>>
vars == <<store, chromedriverExists, pc, locals, browser, attempt, report>>

NoMapping == [n \in {} |-> 0]

\* No add and no update is running.
Idle == [op |-> "none", confirmed |-> FALSE, todo |-> <<>>, done |-> <<>>]

\* The locals of perform_gst_login before the function is entered and after
\* it returns.
LocalsCleared ==
    /\ trade_name_mapping' = NoMapping
    /\ account_name_input' = <<>>
    /\ index' = 0
    /\ username' = None
    /\ password' = None
    /\ driver' = "None"
    /\ leaving' = FALSE

\* What is recorded of one login attempt is dropped when the operator
\* answers the next main-menu or trade-name prompt.
AttemptCleared ==
    /\ quitCalls' = 0
    /\ log' = <<>>
    /\ current_url' = <<>>
    /\ classified' = "None"
    /\ outcome' = "None"
    /\ faultAt' = "none"

\* Module level, lines 44-50: the file exists (created empty if absent) and
\* is loaded into the environment.
Init ==
    /\ file \in InitialFiles
    /\ environ = load_dotenv(<<>>, file)
    /\ written = <<>>
    /\ writing = Idle
    /\ chromedriverExists \in BOOLEAN
    /\ pc = "menu"
    /\ trade_name_mapping = NoMapping
    /\ account_name_input = <<>>
    /\ index = 0
    /\ username = None
    /\ password = None
    /\ driver = "None"
    /\ leaving = FALSE
    /\ openSessions = 0
    /\ quitCalls = 0
    /\ log = <<>>
    /\ current_url = <<>>
    /\ classified = "None"
    /\ outcome = "None"
    /\ faultAt = "none"
    /\ report = "main menu"

\* ---------------------------------------------------------------- main menu
\* Lines 390-393: choice '1' enters the credential menu.
MainMenuManage ==
    /\ pc = "menu"
    /\ \E c \in MenuInputs : Strip(c) = STR_1
    /\ pc' = "credmenu"
    /\ report' = "credential menu"
    /\ AttemptCleared
    /\ UNCHANGED <<store, chromedriverExists, locals, openSessions>>

\* Lines 394-395 and 264-269: choice '2' with no chromedriver executable.
LoginNoChromedriver ==
    /\ pc = "menu"
    /\ \E c \in MenuInputs : Strip(c) = STR_2
    /\ ~chromedriverExists
    /\ pc' = "nodriver"
    /\ report' = "chromedriver not found"
    /\ AttemptCleared
    /\ UNCHANGED <<store, chromedriverExists, locals, openSessions>>

\* Lines 271-284: choice '2', the store lists no account.
LoginNoAccounts ==
    /\ pc = "menu"
    /\ \E c \in MenuInputs : Strip(c) = STR_2
    /\ chromedriverExists
    /\ DOMAIN get_account_mapping(file) = {}
    /\ pc' = "noaccounts"
    /\ report' = "no accounts"
    /\ AttemptCleared
    /\ UNCHANGED <<store, chromedriverExists, locals, openSessions>>

\* Mutant of LoginEnter: the chromedriver check is missing.
LoginEnterUnchecked ==
    /\ pc = "menu"
    /\ \E c \in MenuInputs : Strip(c) = STR_2
    /\ DOMAIN get_account_mapping(file) # {}
    /\ trade_name_mapping' = get_account_mapping(file)
    /\ driver' = "None"
    /\ pc' = "prompt"
    /\ report' = "available accounts"
    /\ AttemptCleared
    /\ UNCHANGED <<store, chromedriverExists, account_name_input, index, username,
                   password, leaving, openSessions>>

\* Lines 271-293: choice '2', the accounts are listed and the trade-name
\* prompt is reached.
LoginEnter ==
    /\ pc = "menu"
    /\ \E c \in MenuInputs : Strip(c) = STR_2
    /\ chromedriverExists
    /\ DOMAIN get_account_mapping(file) # {}
    /\ trade_name_mapping' = get_account_mapping(file)
    /\ driver' = "None"
    /\ pc' = "prompt"
    /\ report' = "available accounts"
    /\ AttemptCleared
    /\ UNCHANGED <<store, chromedriverExists, account_name_input, index, username,
                   password, leaving, openSessions>>

\* Lines 268-269 and 283-284: Enter is pressed, the function returns.
ReturnToMainMenu ==
    /\ pc \in {"nodriver", "noaccounts"}
    /\ pc' = "menu"
    /\ report' = "main menu"
    /\ UNCHANGED <<store, chromedriverExists, locals, browser, attempt>>

\* Lines 396-398: choice '3' ends the program.
MainMenuExit ==
    /\ pc = "menu"
    /\ \E c \in MenuInputs : Strip(c) = STR_3
    /\ pc' = "exited"
    /\ report' = "goodbye"
    /\ AttemptCleared
    /\ UNCHANGED <<store, chromedriverExists, locals, openSessions>>

\* Lines 399-400 and 385-388: any other choice; the menu is printed again.
MainMenuInvalid ==
    /\ pc = "menu"
    /\ \E c \in MenuInputs : Strip(c) \notin {STR_1, STR_2, STR_3}
    /\ pc' = "menu"
    /\ report' = "main menu"
    /\ AttemptCleared
    /\ UNCHANGED <<store, chromedriverExists, locals, openSessions>>

\* ---------------------------------------------------------------- credential menu
\* Lines 248-249 and 115-146: choice '1', add_new_account() reads the
\* operator's answers and either aborts or goes on to its three writes.
\* While the name is new the index it takes is capped at MaxIndex.
Add(Names, Users, Passes) ==
    /\ pc = "credmenu"
    /\ \E c \in MenuInputs : Strip(c) = STR_1
    /\ \E n \in Names, o \in ConfirmInputs, u \in Users, p \in Passes :
        LET calls == add_new_account(file, n, o, u, p)
        IN  /\ \/ Normalize(Strip(n)) \in DOMAIN get_account_mapping(file)
               \/ next_available_index(file) <= MaxIndex
            /\ IF calls = <<>>
               THEN /\ writing' = Idle
                    /\ pc' = "credmenu"
                    /\ report' = "credential menu"
               ELSE /\ writing' =
                        [op |-> "add",
                         confirmed |-> Normalize(Strip(n)) \in DOMAIN get_account_mapping(file),
                         todo |-> calls, done |-> <<>>]
                    /\ pc' = "write"
                    /\ report' = "add new account"
    /\ UNCHANGED <<file, environ, written, chromedriverExists, locals, browser, attempt>>

CredAdd == Add(NameInputs, UserInputs, PassInputs)

\* Lines 250-251 and 158-200: choice '2', update_existing_account() reads
\* the operator's answers and goes on to the writes of the non-blank ones.
Update(Names, Users, Passes) ==
    /\ pc = "credmenu"
    /\ \E c \in MenuInputs : Strip(c) = STR_2
    /\ \E n \in Names, u \in Users, p \in Passes :
        LET calls == update_existing_account(file, n, u, p)
        IN  IF calls = <<>>
            THEN /\ writing' = Idle
                 /\ pc' = "credmenu"
                 /\ report' = "credential menu"
            ELSE /\ writing' =
                    [op |-> "update", confirmed |-> FALSE, todo |-> calls, done |-> <<>>]
                 /\ pc' = "write"
                 /\ report' = "update existing account"
    /\ UNCHANGED <<file, environ, written, chromedriverExists, locals, browser, attempt>>

CredUpdate == Update(NameInputs, UserInputs, PassInputs)

\* Lines 150-155 and 201-209: the next call of update_env_variable of the
\* running add or update; the last one is followed by the reload of the
\* file into the environment and the return to the credential menu.
WriteNext ==
    /\ pc = "write"
    /\ LET w == Head(writing.todo)
           st == update_env_variable([file |-> file, environ |-> environ],
                                     w.key, w.value)
           last == Len(writing.todo) = 1
       IN  /\ file' = st.file
           /\ environ' = IF last THEN load_dotenv(st.environ, st.file) ELSE st.environ
           /\ written' = SetEnv(written, w.key, w.value)
           /\ writing' = IF last THEN Idle
                         ELSE [writing EXCEPT !.todo = Tail(@), !.done = Append(@, w)]
           /\ pc' = IF last THEN "credmenu" ELSE "write"
           /\ report' = IF last THEN "credential menu" ELSE "updated key"
    /\ UNCHANGED <<chromedriverExists, locals, browser, attempt>>

\* Lines 65-66 and 80-81: open() raises in a call of update_env_variable
\* before the file is touched; nothing catches it, the program ends with a
\* traceback and the handler's locals are gone.
WriteFault ==
    /\ pc = "write"
    /\ writing' = Idle
    /\ pc' = "crashed"
    /\ report' = "traceback"
    /\ UNCHANGED <<file, environ, written, chromedriverExists, locals, browser, attempt>>

\* Lines 252-253 and 214-235: choice '3', list_all_accounts() ends with a
\* reload of the file into the environment.
CredList ==
    /\ pc = "credmenu"
    /\ \E c \in MenuInputs : Strip(c) = STR_3
    /\ environ' = load_dotenv(environ, file)
    /\ report' = "credential menu"
    /\ UNCHANGED <<file, written, writing, chromedriverExists, pc, locals, browser, attempt>>

\* Lines 254-255: choice '4' goes back to the main menu.
CredBack ==
    /\ pc = "credmenu"
    /\ \E c \in MenuInputs : Strip(c) = STR_4
    /\ pc' = "menu"
    /\ report' = "main menu"
    /\ UNCHANGED <<store, chromedriverExists, locals, browser, attempt>>

\* Lines 256-257 and 240-244: any other choice; the menu is printed again.
CredInvalid ==
    /\ pc = "credmenu"
    /\ \E c \in MenuInputs : Strip(c) \notin {STR_1, STR_2, STR_3, STR_4}
    /\ pc' = "credmenu"
    /\ report' = "credential menu"
    /\ UNCHANGED <<store, chromedriverExists, locals, browser, attempt>>

\* ---------------------------------------------------------------- login loop
\* Mutant of HasCredentials: `is not None` instead of truthiness, so an
\* empty value passes.
HasCredentialsNotNone(u, p) == u.some /\ p.some

\* Line 322: `if username and password`.
HasCredentials(u, p) == Truthy(u) /\ Truthy(p)

\* Mutant of IsLoggedIn: the third marker is forgotten.
IsLoggedInTwoMarkers(url) ==
    \/ Contains(url, STR_dashboard)
    \/ Contains(url, STR_home)

\* Line 354: the post-submit location carries a known marker.
IsLoggedIn(url) ==
    \/ Contains(url, STR_dashboard)
    \/ Contains(url, STR_home)
    \/ Contains(url, STR_loggedin)

\* The order in which one attempt acts on the page and on the operator.
FullLog == <<"username", "password", "captcha prompt", "captcha", "click">>

\* Lines 293-297: 'back' (any case) leaves the loop; the function returns.
PromptBack ==
    /\ pc = "prompt"
    /\ \E inp \in TradeInputs : LowerStr(Strip(inp)) = STR_back
    /\ LocalsCleared
    /\ pc' = "menu"
    /\ report' = "main menu"
    /\ AttemptCleared
    /\ UNCHANGED <<store, chromedriverExists, openSessions>>

\* Lines 298-304: 'list' prints the accounts and asks again.
PromptList ==
    /\ pc = "prompt"
    /\ \E inp \in TradeInputs :
        /\ LowerStr(Strip(inp)) = STR_list
        /\ account_name_input' = Strip(inp)
    /\ pc' = "prompt"
    /\ report' = "available accounts"
    /\ AttemptCleared
    /\ UNCHANGED <<store, chromedriverExists, trade_name_mapping, index, username,
                   password, driver, leaving, openSessions>>

\* Lines 308-312: the normalized input is no key of the mapping.
PromptNotFound ==
    /\ pc = "prompt"
    /\ \E inp \in TradeInputs :
        /\ LowerStr(Strip(inp)) \notin {STR_back, STR_list}
        /\ Normalize(Strip(inp)) \notin DOMAIN trade_name_mapping
        /\ account_name_input' = Strip(inp)
    /\ pc' = "prompt"
    /\ report' = "trade name not found"
    /\ AttemptCleared
    /\ UNCHANGED <<store, chromedriverExists, trade_name_mapping, index, username,
                   password, driver, leaving, openSessions>>

\* Lines 314-323 and 375-378: the account is resolved and its credentials
\* are read from the environment; with both present the attempt starts,
\* otherwise the missing keys are reported and the prompt comes again.
PromptResolved ==
    /\ pc = "prompt"
    /\ \E inp \in TradeInputs :
        /\ LowerStr(Strip(inp)) \notin {STR_back, STR_list}
        /\ Normalize(Strip(inp)) \in DOMAIN trade_name_mapping
        /\ account_name_input' = Strip(inp)
        /\ index' = trade_name_mapping[Normalize(Strip(inp))]
    /\ username' = getenv(environ, Key(USER_ID_PREFIX, index'))
    /\ password' = getenv(environ, Key(PASSWORD_PREFIX, index'))
    /\ IF HasCredentials(username', password')
       THEN /\ pc' = "start"
            /\ report' = "attempting to log in"
       ELSE /\ pc' = "prompt"
            /\ report' = "credentials not found"
    /\ AttemptCleared
    /\ UNCHANGED <<store, chromedriverExists, trade_name_mapping, driver, leaving,
                   openSessions>>

\* Mutant of Caught: the handler starts the attempt again by itself.
CaughtRetries(step) ==
    /\ faultAt' = step
    /\ outcome' = "Failure"
    /\ report' = "error during login"
    /\ pc' = "start"

\* An exception raised inside the try block of lines 328-365: the handler
\* of lines 367-368 reports it, then the finally block runs.
Caught(step) ==
    /\ faultAt' = step
    /\ outcome' = "Failure"
    /\ report' = "error during login"
    /\ pc' = "finally"

\* An exception raised by lines 324-326, which no handler encloses: it
\* leaves perform_gst_login and the main loop, and the process ends with a
\* traceback.
Uncaught(step) ==
    /\ faultAt' = step
    /\ report' = "traceback"
    /\ pc' = "crashed"

\* Lines 324-325: the chromedriver service and the browser session start.
StartSession ==
    /\ pc = "start"
    /\ \/ /\ driver' = "session"
          /\ openSessions' = openSessions + 1
          /\ pc' = "navigate"
          /\ UNCHANGED <<faultAt, report>>
       \/ /\ Uncaught("start")
          /\ UNCHANGED <<driver, openSessions>>
    /\ UNCHANGED <<store, chromedriverExists, trade_name_mapping, account_name_input,
                   index, username, password, leaving, quitCalls, log, current_url,
                   classified, outcome>>

\* Line 326: driver.get(url).
Navigate ==
    /\ pc = "navigate"
    /\ \/ /\ pc' = "wait username"
          /\ UNCHANGED <<faultAt, report>>
       \/ Uncaught("navigate")
    /\ UNCHANGED <<store, chromedriverExists, locals, browser, classified, outcome>>

\* Lines 329-332: wait for the username element and type the username.
WaitUsername ==
    /\ pc = "wait username"
    /\ \/ /\ log' = Append(log, "username")
          /\ pc' = "find password"
          /\ UNCHANGED <<faultAt, outcome, report>>
       \/ /\ Caught("wait username")
          /\ UNCHANGED log
    /\ UNCHANGED <<store, chromedriverExists, locals, openSessions, quitCalls,
                   current_url, classified>>

\* Lines 334-335: find the password element and type the password.
FindPassword ==
    /\ pc = "find password"
    /\ \/ /\ log' = Append(log, "password")
          /\ pc' = "wait captcha"
          /\ UNCHANGED <<faultAt, outcome, report>>
       \/ /\ Caught("find password")
          /\ UNCHANGED log
    /\ UNCHANGED <<store, chromedriverExists, locals, openSessions, quitCalls,
                   current_url, classified>>

\* Mutant of WaitCaptcha: the timeout is swallowed and the operator is
\* asked all the same.
WaitCaptchaSwallowsTimeout ==
    /\ pc = "wait captcha"
    /\ \/ /\ log' = Append(log, "captcha prompt")
          /\ pc' = "captcha input"
          /\ UNCHANGED <<faultAt, outcome, report>>
       \/ /\ faultAt' = "wait captcha"
          /\ log' = Append(log, "captcha prompt")
          /\ pc' = "captcha input"
          /\ UNCHANGED <<outcome, report>>
    /\ UNCHANGED <<store, chromedriverExists, locals, openSessions, quitCalls,
                   current_url, classified>>

\* Lines 337-341: wait for the CAPTCHA element; once it is there the
\* operator is asked for the solution.
WaitCaptcha ==
    /\ pc = "wait captcha"
    /\ \/ /\ log' = Append(log, "captcha prompt")
          /\ pc' = "captcha input"
          /\ UNCHANGED <<faultAt, outcome, report>>
       \/ /\ Caught("wait captcha")
          /\ UNCHANGED log
    /\ UNCHANGED <<store, chromedriverExists, locals, openSessions, quitCalls,
                   current_url, classified>>

\* Lines 341-342: the operator's solution is read and typed.
CaptchaInput ==
    /\ pc = "captcha input"
    /\ \/ /\ log' = Append(log, "captcha")
          /\ pc' = "wait submit"
          /\ UNCHANGED <<faultAt, outcome, report>>
       \/ /\ Caught("captcha input")
          /\ UNCHANGED log
    /\ UNCHANGED <<store, chromedriverExists, locals, openSessions, quitCalls,
                   current_url, classified>>

\* Lines 347-352: wait for the login button, click it and let the page
\* settle.
WaitSubmit ==
    /\ pc = "wait submit"
    /\ \/ /\ log' = Append(log, "click")
          /\ pc' = "evaluate"
          /\ UNCHANGED <<faultAt, outcome, report>>
       \/ /\ Caught("wait submit")
          /\ UNCHANGED log
    /\ UNCHANGED <<store, chromedriverExists, locals, openSessions, quitCalls,
                   current_url, classified>>

\* Mutant of Evaluate: on success the loop is left at once, without the
\* keep-open input.
EvaluateLeavesAtOnce ==
    /\ pc = "evaluate"
    /\ \/ /\ current_url' \in Locations
          /\ IsLoggedIn(current_url')
          /\ classified' = "Success"
          /\ outcome' = "Success"
          /\ report' = "successfully logged in"
          /\ leaving' = TRUE
          /\ pc' = "finally"
          /\ UNCHANGED faultAt
       \/ /\ current_url' \in Locations
          /\ ~IsLoggedIn(current_url')
          /\ classified' = "Failure"
          /\ outcome' = "Failure"
          /\ report' = "login failed"
          /\ pc' = "find error"
          /\ UNCHANGED <<faultAt, leaving>>
       \/ /\ Caught("evaluate")
          /\ UNCHANGED <<current_url, classified, leaving>>
    /\ UNCHANGED <<store, chromedriverExists, trade_name_mapping, account_name_input,
                   index, username, password, driver, openSessions, quitCalls, log>>

\* Lines 354-359: driver.current_url is read (the page has settled, every
\* read of the condition sees the same location) and the attempt is
\* classified; or the read raises.
Evaluate ==
    /\ pc = "evaluate"
    /\ \/ /\ current_url' \in Locations
          /\ IsLoggedIn(current_url')
          /\ classified' = "Success"
          /\ outcome' = "Success"
          /\ report' = "successfully logged in"
          /\ pc' = "keep open"
          /\ UNCHANGED faultAt
       \/ /\ current_url' \in Locations
          /\ ~IsLoggedIn(current_url')
          /\ classified' = "Failure"
          /\ outcome' = "Failure"
          /\ report' = "login failed"
          /\ pc' = "find error"
          /\ UNCHANGED faultAt
       \/ /\ Caught("evaluate")
          /\ UNCHANGED <<current_url, classified>>
    /\ UNCHANGED <<store, chromedriverExists, locals, openSessions, quitCalls, log>>

\* Lines 356-357: the operator presses Enter, then `break`; or reading the
\* operator's line raises.
KeepOpen ==
    /\ pc = "keep open"
    /\ \/ /\ log' = Append(log, "keep open input")
          /\ leaving' = TRUE
          /\ pc' = "finally"
          /\ UNCHANGED <<faultAt, outcome, report>>
       \/ /\ Caught("keep open")
          /\ UNCHANGED <<log, leaving>>
    /\ UNCHANGED <<store, chromedriverExists, trade_name_mapping, account_name_input,
                   index, username, password, driver, openSessions, quitCalls,
                   current_url, classified>>

\* Lines 360-365: the page's error message is printed if the element is
\* there; its absence is swallowed by the bare except.
FindError ==
    /\ pc = "find error"
    /\ \/ log' = Append(log, "error message")
       \/ UNCHANGED log
    /\ report' = "check the credentials"
    /\ pc' = "finally"
    /\ UNCHANGED <<store, chromedriverExists, locals, openSessions, quitCalls,
                   current_url, attempt>>

\* What follows the finally block: line 357's break returns to the main
\* menu, otherwise the loop asks for a trade name again.
AfterFinally ==
    IF leaving
    THEN /\ LocalsCleared
         /\ pc' = "menu"
         /\ report' = "main menu"
    ELSE /\ driver' = "None"
         /\ pc' = "prompt"
         /\ UNCHANGED <<trade_name_mapping, account_name_input, index, username,
                        password, leaving, report>>

\* Mutant of Finally: the session is quit only when no exception was
\* raised.
FinallyNoQuitAfterFault ==
    /\ pc = "finally"
    /\ IF driver # "None" /\ faultAt = "none"
       THEN /\ quitCalls' = quitCalls + 1
            /\ openSessions' = openSessions - 1
       ELSE UNCHANGED <<quitCalls, openSessions>>
    /\ AfterFinally
    /\ UNCHANGED <<store, chromedriverExists, log, current_url, attempt>>

\* Mutant of Finally: after a successful login the browser is left open.
FinallyKeepsBrowserOnSuccess ==
    /\ pc = "finally"
    /\ IF driver # "None" /\ ~leaving
       THEN /\ quitCalls' = quitCalls + 1
            /\ openSessions' = openSessions - 1
       ELSE UNCHANGED <<quitCalls, openSessions>>
    /\ AfterFinally
    /\ UNCHANGED <<store, chromedriverExists, log, current_url, attempt>>

\* Lines 370-373, then line 357's break or the next turn of the loop.
Finally ==
    /\ pc = "finally"
    /\ IF driver # "None"
       THEN /\ quitCalls' = quitCalls + 1
            /\ openSessions' = openSessions - 1
       ELSE UNCHANGED <<quitCalls, openSessions>>
    /\ AfterFinally
    /\ UNCHANGED <<store, chromedriverExists, log, current_url, attempt>>

\* ---------------------------------------------------------------- specification
Next ==
    \/ MainMenuManage
    \/ LoginNoChromedriver
    \/ LoginNoAccounts
    \/ LoginEnter
    \/ ReturnToMainMenu
    \/ MainMenuExit
    \/ MainMenuInvalid
    \/ CredAdd
    \/ CredUpdate
    \/ WriteNext
    \/ WriteFault
    \/ CredList
    \/ CredBack
    \/ CredInvalid
    \/ PromptBack
    \/ PromptList
    \/ PromptNotFound
    \/ PromptResolved
    \/ StartSession
    \/ Navigate
    \/ WaitUsername
    \/ FindPassword
    \/ WaitCaptcha
    \/ CaptchaInput
    \/ WaitSubmit
    \/ Evaluate
    \/ KeepOpen
    \/ FindError
    \/ Finally

Spec == Init /\ [][Next]_vars

\* ---------------------------------------------------------------- the store alone
\* The credential menu on its own, with more varied answers and files: a
\* trade name typed with double quotes or with a tab inside it, and files
\* edited by hand.
StoreNames ==
    { <<>>,
      <<"a", " ", "b">>, <<"A", "B">>, <<"a", "\t", "b">>,
      <<"c">>, <<"\"", "c", "\"">> }

StoreUsers == { <<>>, <<"u">>, <<"v">> }
StorePasses == { <<>>, <<"p">> }

\* A key the program does not know.
OTHER_KEY == <<"FOO", <<>>>>

\* Files the program may find: empty; one whose only line has no newline;
\* an account whose last line has no newline; a trade name without
\* credentials and without newline; Trade_Name_ lines with no index, with a
\* non-numeric index and with a leading zero next to a regular account.
StoreFiles ==
    { <<>>,
      << [key |-> OTHER_KEY, raw |-> <<"b", "a", "r">>, nl |-> FALSE] >>,
      << Line(Key(TRADE_NAME_PREFIX, 1), <<"a", " ", "b">>),
         Line(OTHER_KEY, <<"x">>),
         [key |-> Key(USER_ID_PREFIX, 1), raw |-> Quoted(<<"u">>), nl |-> FALSE] >>,
      << [key |-> Key(TRADE_NAME_PREFIX, 1), raw |-> Quoted(<<"c">>), nl |-> FALSE] >>,
      << [key |-> <<TRADE_NAME_PREFIX, <<>>>>, raw |-> <<"x">>, nl |-> TRUE],
         [key |-> <<TRADE_NAME_PREFIX, <<"a", "b", "c">>>>, raw |-> <<"y">>, nl |-> TRUE],
         [key |-> <<TRADE_NAME_PREFIX, <<"0", "1">>>>, raw |-> Quoted(<<"c">>), nl |-> TRUE],
         Line(Key(USER_ID_PREFIX, 1), <<"u">>),
         Line(Key(PASSWORD_PREFIX, 1), <<"p">>) >> }

\* The program at the credential menu, over a file f.
AtCredentialMenu(f) ==
    /\ file = f
    /\ environ = load_dotenv(<<>>, f)
    /\ written = <<>>
    /\ writing = Idle
    /\ chromedriverExists = TRUE
    /\ pc = "credmenu"
    /\ trade_name_mapping = NoMapping
    /\ account_name_input = <<>>
    /\ index = 0
    /\ username = None
    /\ password = None
    /\ driver = "None"
    /\ leaving = FALSE
    /\ openSessions = 0
    /\ quitCalls = 0
    /\ log = <<>>
    /\ current_url = <<>>
    /\ classified = "None"
    /\ outcome = "None"
    /\ faultAt = "none"
    /\ report = "credential menu"

StoreInit == \E f \in StoreFiles : AtCredentialMenu(f)

StoreAdd == Add(StoreNames, StoreUsers, StorePasses)
StoreUpdate == Update(StoreNames, StoreUsers, StorePasses)

StoreNext ==
    \/ StoreAdd
    \/ StoreUpdate
    \/ WriteNext
    \/ WriteFault
    \/ CredList
    \/ CredInvalid

StoreSpec == StoreInit /\ [][StoreNext]_vars

\* The same, started from the file the program creates when there is none.
EmptyStoreInit == AtCredentialMenu(<<>>)

EmptyStoreSpec == EmptyStoreInit /\ [][StoreNext]_vars

\* ---------------------------------------------------------------- properties
\* The positions of one login attempt, from the start of the session to the
\* finally block.
AttemptSteps ==
    {"start", "navigate", "wait username", "find password", "wait captcha",
     "captcha input", "wait submit", "evaluate", "keep open", "find error", "finally"}

\* The steps between Navigated and Submitted at which a fault may be raised.
TrySteps ==
    {"wait username", "find password", "wait captcha", "captcha input",
     "wait submit", "evaluate"}

\* The attempt is over: the program is neither inside it nor has it died.
AttemptOver == pc \in {"prompt", "menu"}

IsPrefix(a, b) == Len(a) <= Len(b) /\ a = SubSeq(b, 1, Len(a))

\* The key is set in the environment to a non-empty value.
Present(k) == k \in DOMAIN environ /\ environ[k] # <<>>

BothPresent(i) == Present(Key(USER_ID_PREFIX, i)) /\ Present(Key(PASSWORD_PREFIX, i))

\* The location shows one of the three post-login markers.
HasMarker(url) ==
    \E m \in {STR_dashboard, STR_home, STR_loggedin} : Contains(url, m)

\* C1, as claimed: whenever the program is outside a login attempt, also
\* after a fault while starting the session or navigating to the login URL,
\* no session is left open.
C1_SessionClosedOnEveryExit == pc \notin AttemptSteps => openSessions = 0

\* C2: a fault at any step between Navigated and Submitted ends the attempt
\* in Failure with exactly one quit() call: none before the finally block,
\* one after it, never two.
C2_FaultQuitsExactlyOnce ==
    /\ quitCalls <= 1
    /\ faultAt \in TrySteps =>
        /\ outcome = "Failure"
        /\ pc \in {"finally", "prompt", "menu"}
        /\ pc = "finally" => quitCalls = 0 /\ openSessions = 1
        /\ pc # "finally" => quitCalls = 1 /\ openSessions = 0

\* C2's case: the read of the post-submit location raised and the attempt
\* is over.
C2_Witness == faultAt = "evaluate" /\ pc = "prompt" /\ quitCalls = 1

\* C3: at most one session is open, and none while the program waits for a
\* trade name or is back at the main menu.
C3_AtMostOneSession ==
    /\ openSessions <= 1
    /\ pc \in {"prompt", "menu"} => openSessions = 0

\* C3's case: back at the main menu after a successful login whose session
\* was open and has been quit.
C3_Witness == pc = "menu" /\ classified = "Success" /\ quitCalls = 1

\* C4, as claimed: no fault of the automation sequence leaves the login
\* feature; each one becomes a Failure outcome and the program goes on.
C4_NoFaultPropagates ==
    faultAt # "none" => pc # "crashed" /\ outcome = "Failure"

\* C5: once the location was read, the attempt is classified Success exactly
\* when the location shows a marker and Failure otherwise; after a Failure
\* classification, with or without an error element on the page, the
\* outcome stays Failure and no fault is raised.
C5_ClassifiedByMarker ==
    /\ classified = "Success" <=> (classified # "None" /\ HasMarker(current_url))
    /\ classified = "Failure" <=> (classified # "None" /\ ~HasMarker(current_url))
    /\ classified = "Failure" => outcome = "Failure" /\ faultAt = "none"
    /\ classified = "None" => current_url = <<>>

\* C5's case: a location without marker, no error element on the page, the
\* attempt over.
C5_Witness ==
    /\ classified = "Failure"
    /\ pc = "prompt"
    /\ log = FullLog
    /\ quitCalls = 1

\* C6: the page and the operator are acted on in the fixed order username,
\* password, CAPTCHA prompt, CAPTCHA text, click; a CAPTCHA element that never
\* appears ends the attempt in Failure with no prompt, no click and one
\* quit() call.
C6_CaptchaBeforeSubmit ==
    /\ \/ IsPrefix(log, FullLog)
       \/ log \in {Append(FullLog, "keep open input"), Append(FullLog, "error message")}
    /\ faultAt = "wait captcha" =>
        /\ outcome = "Failure"
        /\ log = <<"username", "password">>
        /\ quitCalls <= 1
        /\ pc # "finally" => quitCalls = 1 /\ openSessions = 0 /\ AttemptOver

\* C6's case: the CAPTCHA wait timed out and the attempt is over.
C6_Witness == faultAt = "wait captcha" /\ pc = "prompt" /\ quitCalls = 1

\* C7: inside an attempt the username and the password of the resolved
\* index are both set and non-empty; a resolved account with either one
\* absent or empty is reported, opens no session and leaves the program at
\* the trade-name prompt.
C7_InAttempt ==
    pc \in AttemptSteps \ {"finally"} =>
        /\ BothPresent(index)
        /\ username = Some(environ[Key(USER_ID_PREFIX, index)])
        /\ password = Some(environ[Key(PASSWORD_PREFIX, index)])

C7_ResolvedStep ==
    (/\ pc = "prompt"
     /\ LowerStr(account_name_input') \notin {STR_back, STR_list}
     /\ Normalize(account_name_input') \in DOMAIN trade_name_mapping) =>
        IF BothPresent(trade_name_mapping[Normalize(account_name_input')])
        THEN pc' = "start"
        ELSE /\ pc' = "prompt"
             /\ report' = "credentials not found"
             /\ openSessions' = 0
             /\ driver' = "None"

\* C7: a session is opened only with both credentials present (always
\* C7_InAttempt, and every step satisfies C7_ResolvedStep).
C7_SessionOnlyWithCredentials == []C7_InAttempt /\ [][C7_ResolvedStep]_vars

\* C7's case: an account was resolved whose password is empty or absent.
C7_Witness ==
    /\ pc = "prompt"
    /\ report = "credentials not found"
    /\ Present(Key(USER_ID_PREFIX, index))
    /\ ~Present(Key(PASSWORD_PREFIX, index))

\* C8: a Failure outcome leads back to the trade-name prompt, lookup and
\* incomplete-data errors stay there, a session is started only by the step
\* that reads a trade name at the prompt, and 'back' is always possible at
\* the prompt.
C8_FailureStep == (pc = "finally" /\ outcome = "Failure") => pc' = "prompt"

C8_ErrorStep ==
    (pc = "prompt" /\ report' \in {"trade name not found", "credentials not found"}) =>
        pc' = "prompt"

C8_StartStep ==
    /\ pc' = "start" =>
        /\ pc = "prompt"
        /\ Normalize(account_name_input') \in DOMAIN trade_name_mapping
    /\ openSessions' > openSessions => pc = "start"

\* C8: no automatic retry (every step satisfies the three step conditions,
\* and 'back' is enabled whenever the program is at the prompt).
C8_NoAutomaticRetry ==
    /\ [][C8_FailureStep /\ C8_ErrorStep /\ C8_StartStep]_vars
    /\ [](pc = "prompt" => ENABLED PromptBack)

\* C8's case: back at the prompt after a failed attempt.
C8_Witness == pc = "prompt" /\ outcome = "Failure" /\ quitCalls = 1

\* C9, as claimed: after Success the session is quit only once the operator
\* has supplied the keep-open input, and the flow is then back at the main
\* menu.
C9_QuitStepOriginal ==
    (classified = "Success" /\ quitCalls' > quitCalls) =>
        /\ leaving
        /\ pc' = "menu"

\* C9, as claimed: every quit() after Success follows a supplied keep-open
\* input and leads to the main menu.
C9_Original == [][C9_QuitStepOriginal]_vars

\* C9, amended: after Success the session stays open while the program
\* waits for the keep-open input; it is quit once that input was supplied,
\* and the flow is then back at the main menu, or once reading that input
\* raised, and the flow is then back at the trade-name prompt; it is never
\* left open.
C9_WhileWaiting ==
    /\ pc = "keep open" => openSessions = 1 /\ quitCalls = 0 /\ classified = "Success"
    /\ (classified = "Success" /\ pc \notin {"keep open", "finally"}) =>
            quitCalls = 1 /\ openSessions = 0

C9_QuitStep ==
    (classified = "Success" /\ quitCalls' > quitCalls) =>
        /\ openSessions' = 0
        /\ \/ /\ log = Append(FullLog, "keep open input")
              /\ pc' = "menu"
           \/ /\ faultAt = "keep open"
              /\ pc' = "prompt"

\* C9, amended: teardown after Success is deferred to the end of the
\* keep-open read and never skipped.
C9_TeardownDeferred == []C9_WhileWaiting /\ [][C9_QuitStep]_vars

\* C9's case: the keep-open input was supplied, the session quit and the
\* main menu reached.
C9_Witness ==
    /\ pc = "menu"
    /\ log = Append(FullLog, "keep open input")
    /\ quitCalls = 1
    /\ openSessions = 0

\* C10: without the chromedriver executable the login feature is left before
\* any trade name is asked for: no prompt, no session, no change of the
\* store, and the program is back at the main menu.
C10_NeverEntered ==
    ~chromedriverExists =>
        /\ pc \in {"menu", "credmenu", "write", "crashed", "nodriver", "exited"}
        /\ openSessions = 0
        /\ trade_name_mapping = NoMapping
        /\ account_name_input = <<>>

C10_AbortStep ==
    /\ (pc = "menu" /\ ~chromedriverExists /\ pc' \notin {"menu", "credmenu", "exited"}) =>
            pc' = "nodriver" /\ UNCHANGED store
    /\ pc = "nodriver" => pc' = "menu" /\ UNCHANGED store

\* C10: a missing chromedriver aborts the login feature before the prompt
\* loop and leaves the store alone.
C10_MissingChromedriverAborts == []C10_NeverEntered /\ [][C10_AbortStep]_vars

\* C10's case: the feature was aborted although the store lists accounts.
C10_Witness ==
    /\ pc = "nodriver"
    /\ DOMAIN get_account_mapping(file) # {}
    /\ report = "chromedriver not found"

\* ---------------------------------------------------------------- claims on the account store
\* The value of a line written as KEY="VALUE": the text between the quotes.
StoredValue(l) ==
    LET r == Strip(l.raw)
    IN  IF Len(r) >= 2 /\ r[1] = "\"" /\ r[Len(r)] = "\""
        THEN SubSeq(r, 2, Len(r) - 1)
        ELSE r

\* The normalized key of the trade name a Trade_Name_<n> line carries.
CarriedKey(l) == Normalize(StoredValue(l))

\* The index of a Trade_Name_<n> line.
IndexOf(l) == ToInt(l.key[2])

\* C11: after any sequence of adds and updates from the empty store, no two
\* indices carry trade names with the same normalized key.  Violated: a
\* trade name typed with double quotes is stored twice.
C11_UniqueNormalizedKeys ==
    pc = "credmenu" =>
        \A i, j \in TradeLines(file) :
            CarriedKey(file[i]) = CarriedKey(file[j]) => IndexOf(file[i]) = IndexOf(file[j])

\* The lines that carry the trade name `name` under its normalized key.
Carrying(lines, name) ==
    {i \in TradeLines(lines) : CarriedKey(lines[i]) = Normalize(name)}

\* An add has read its answers and goes on to write.
AddStarts == pc = "credmenu" /\ pc' = "write" /\ writing'.op = "add"

\* The trade name and the index of the add that is starting.
AddedName == writing'.todo[1].value
AddedIndex == ToInt(writing'.todo[1].key[2])

C12_AddStep ==
    AddStarts =>
        IF Carrying(file, AddedName) # {}
        THEN \E i \in Carrying(file, AddedName) : IndexOf(file[i]) = AddedIndex
        ELSE AddedIndex = MaxOf({IndexOf(file[i]) : i \in TradeLines(file)}) + 1

\* C12: add writes a name that exists at its current index and a new name at
\* the highest Trade_Name index + 1.  Violated: a name stored with double
\* quotes is not found again and is written at a new index.
C12_IndexAllocation == [][C12_AddStep]_vars

C13_FaultStep ==
    (pc = "write" /\ writing.op = "add" /\ pc' = "crashed") => writing.done = <<>>

\* C13: the three values of an add reach the store together or not at all,
\* also when a fault ends the add.  Violated: a fault in the second or third
\* call of update_env_variable leaves the values already written.
C13_AddIsAtomic == [][C13_FaultStep]_vars

C14_AddStep ==
    /\ (AddStarts /\ Carrying(file, AddedName) # {}) => writing'.confirmed
    /\ (pc = "credmenu" /\ pc' = "credmenu") => UNCHANGED <<file, environ>>

\* C14: an add on a name that exists writes only after the overwrite
\* question was answered 'yes', and an aborted add leaves the store as it
\* was.  Violated: for a name stored with double quotes the question is
\* never asked.
C14_OverwriteConfirmed == [][C14_AddStep]_vars

\* The call of update_env_variable that is about to run.
NextWrite == Head(writing.todo)

\* A call of update_env_variable has run.
WriteDone == pc = "write" /\ pc' # "crashed"

C15_UpdateStep ==
    (WriteDone /\ writing.op = "update") =>
        /\ get_account_mapping(file') = get_account_mapping(file)
        /\ Len(file') >= Len(file)
        /\ \A i \in 1..Len(file) :
              file[i].key # NextWrite.key =>
                  file'[i].key = file[i].key /\ file'[i].raw = file[i].raw

\* C15: a write of an update changes the one field it names; the trade
\* names, the indices and every other field stay.  Violated: over a file
\* whose last line has no newline the appended field lands on that line.
C15_UpdateTouchesOnlySupplied == [][C15_UpdateStep]_vars

C16_WriteStep ==
    WriteDone =>
        LET k == NextWrite.key
            present == \E i \in 1..Len(file) : file[i].key = k
        IN  IF present
            THEN /\ Len(file') = Len(file)
                 /\ \A i \in 1..Len(file) :
                      file'[i] = IF file[i].key = k THEN Line(k, NextWrite.value)
                                 ELSE file[i]
            ELSE file' = Append(file, Line(k, NextWrite.value))

\* C16: a write rewrites the line of its key in place or appends a new
\* line, and keeps every other line as it was and where it was.  Violated:
\* over a file whose last line has no newline the appended text continues
\* that line.
C16_OtherLinesPreserved == [][C16_WriteStep]_vars

\* Lines 307-314 (and 125, 179): the index a typed trade name resolves to,
\* 0 when it is not found.
Resolve(lines, inp) ==
    LET mapping == get_account_mapping(lines)
        normalized_account_name == Normalize(Strip(inp))
    IN  IF normalized_account_name \in DOMAIN mapping
        THEN mapping[normalized_account_name]
        ELSE 0

IsNotSpace(c) == ~IsSpace(c)

\* What two names have in common when they differ only in letter case and
\* in whitespace.
Folded(s) == UpperStr(SelectSeq(s, IsNotSpace))

\* C17: every input that differs from a stored trade name only in letter
\* case and whitespace resolves to the index of that name.  Violated: a tab
\* inside the input is not removed, and a name stored with double quotes
\* does not resolve at all.
C17_InsensitiveResolution ==
    pc = "credmenu" =>
        \A i \in TradeLines(file), x \in StoreNames :
            Folded(x) = Folded(StoredValue(file[i])) => Resolve(file, x) = IndexOf(file[i])

\* A Trade_Name_ line with no digits, or with a character that is no digit,
\* between the prefix and '='.
Malformed(l) ==
    /\ l.key[1] = TRADE_NAME_PREFIX
    /\ \/ l.key[2] = <<>>
       \/ \E i \in 1..Len(l.key[2]) : ~IsDigit(l.key[2][i])

IsWellFormed(l) == ~Malformed(l)

\* The file without its malformed lines.
WithoutMalformed(lines) == SelectSeq(lines, IsWellFormed)

\* C18: malformed Trade_Name_ lines are ignored: the mapping (so what
\* resolves), the listing and the next index are those of the file without
\* them.
C18_MalformedIgnored ==
    /\ get_account_mapping(file) = get_account_mapping(WithoutMalformed(file))
    /\ list_all_accounts(file, environ) = list_all_accounts(WithoutMalformed(file), environ)
    /\ next_available_index(file) = next_available_index(WithoutMalformed(file))

\* C18's case: a file with malformed lines in which an account was added
\* next to the one it held.
C18_Witness ==
    /\ pc = "credmenu"
    /\ \E i \in 1..Len(file) : Malformed(file[i])
    /\ written # <<>>
    /\ next_available_index(file) = 3

C19_Step ==
    \A n \in DOMAIN get_account_mapping(file) :
        /\ n \in DOMAIN get_account_mapping(file')
        /\ get_account_mapping(file')[n] = get_account_mapping(file)[n]

\* C19: a normalized trade name that resolves to an index resolves to the
\* same index after every further step of an add or an update.  Violated:
\* a name typed with double quotes is stored at a new index and takes over
\* the key of the name stored without them.
C19_IndexStable == [][C19_Step]_vars

\* The value os.getenv gave for key k is the one last written for it in
\* this run of the program, when one was written.
AsWritten(k, got) == k \in DOMAIN written => got = Some(written[k])

\* C20: the username and the password a login attempt is about to type
\* for index i are the values last written for index i.  Violated: the
\* reload that ends an add or an update decodes a backslash sequence of a
\* written value, so the environment holds another text than the one typed.
C20_ReadYourWrites ==
    pc = "start" =>
        /\ AsWritten(Key(USER_ID_PREFIX, index), username)
        /\ AsWritten(Key(PASSWORD_PREFIX, index), password)
====
